---- MODULE Spec2Model ----
(***************************************************************************)
(* Model of the five construction variants of the example HTTP Client:     *)
(* traditional constructor, multiple constructors, config struct, setter   *)
(* chain and functional options.  Go maps and *Client are references, so   *)
(* the model keeps a heap of maps and a heap of Client structs.            *)
(***************************************************************************)
EXTENDS Integers, Sequences, FiniteSets, TLC

VARIABLES
    maps,     \* heap of map[string]string objects: ref i holds maps[i]
    clients,  \* heap of Client structs: pointer i holds clients[i]
    nHttp,    \* number of http.Client structs allocated so far
    chain,    \* chain[i]: what the constructor and the setters gave clients[i]
    last,     \* the most recent constructor or setter call and what it returned
    prev,     \* the call before it (kept by SpecPair only)
    made      \* the map literals the callers evaluated, and the maps they got

vars == <<maps, clients, nHttp, chain, last, prev, made>>

----------------------------------------------------------------------------
\* Bounds of the model.

MaxClients == 1      \* constructor calls in a run of Spec and SpecVariants
MaxOpts == 2         \* options a caller passes to one New call

----------------------------------------------------------------------------
\* Values.

URLs == {"", "https://api.example.com"}

NilMap == 0                  \* the nil map[string]string
NilClient == 0               \* the nil *Client
NilLogger == "nil"           \* the nil ILogger
Loggers == {NilLogger, "myLogger"}

EmptyMap == [k \in {} |-> "1"]                       \* map[string]string{}
HeaderLits == {[k \in {"A"} |-> "1"], [k \in {"B"} |-> "2"]}
WriteEntries == {<<"B", "2">>}

\* The map references a caller passes: nil and the maps it made itself.
MapRefs == {NilMap} \cup {x.ref : x \in made}

Client(baseURL, header, logger, baseClient) ==
    [baseURL |-> baseURL, header |-> header, logger |-> logger,
     baseClient |-> baseClient]

----------------------------------------------------------------------------
\* Functional options.

\* An Option is a closure; it is modelled by the factory that made it and
\* the value it captured.
WithHeader(header) == [kind |-> "WithHeader", header |-> header, logger |-> NilLogger]
WithLogger(logger) == [kind |-> "WithLogger", header |-> NilMap, logger |-> logger]

\* The closure bodies, each after the faulty variants the claims are
\* checked against: an option that also resets another attribute.
WithHeaderApplyResetsLogger(header, c) ==
    [c EXCEPT !.header = header, !.logger = NilLogger]
WithHeaderApply(header, c) == [c EXCEPT !.header = header]

WithLoggerApplyResetsHeader(logger, c) ==
    [c EXCEPT !.logger = logger, !.header = NilMap]
WithLoggerApply(logger, c) == [c EXCEPT !.logger = logger]

\* opt(client)
ApplyOption(opt, c) ==
    IF opt.kind = "WithHeader" THEN WithHeaderApply(opt.header, c)
                               ELSE WithLoggerApply(opt.logger, c)

\* Faulty loops: the options applied last to first, and every second
\* option skipped.
RECURSIVE ApplyOptsReversed(_, _)
ApplyOptsReversed(opts, c) ==
    IF opts = << >> THEN c
    ELSE ApplyOption(Head(opts), ApplyOptsReversed(Tail(opts), c))

RECURSIVE ApplyOptsStride(_, _)
ApplyOptsStride(opts, c) ==
    IF opts = << >> THEN c
    ELSE IF Len(opts) = 1 THEN ApplyOption(Head(opts), c)
    ELSE ApplyOptsStride(Tail(Tail(opts)), ApplyOption(Head(opts), c))

\* for _, opt := range opts { opt(client) }
RECURSIVE ApplyOpts(_, _)
ApplyOpts(opts, c) ==
    IF opts = << >> THEN c
    ELSE ApplyOpts(Tail(opts), ApplyOption(Head(opts), c))

\* Faulty default: one package-level map shared by every New call.
FreshMapRefShared ==
    IF last.op = "New" THEN last.def.header ELSE Len(maps) + 1
\* The reference a map literal evaluated now gets: a new heap object.
FreshMapRef == Len(maps) + 1

\* Faulty default: the header map left nil.
DefaultClientNilHeader(baseURL) ==
    Client(baseURL, NilMap, NilLogger, nHttp + 1)
\* The struct New starts from.
DefaultClient(baseURL) == Client(baseURL, FreshMapRef, NilLogger, nHttp + 1)

\* The pointer New returns; the struct it points to is NewStruct.
NewStruct(baseURL, opts) == ApplyOpts(opts, DefaultClient(baseURL))
\* Faulty return: an empty baseURL rejected.
NewReturnValidated(baseURL, opts) ==
    IF baseURL = "" THEN NilClient ELSE Len(clients) + 1
NewReturn(baseURL, opts) == Len(clients) + 1

----------------------------------------------------------------------------
\* What a caller reads through a reference: the contents, not the reference.

HeaderVal(ref, heap) ==
    IF ref = NilMap THEN [isNil |-> TRUE, entries |-> EmptyMap]
                    ELSE [isNil |-> FALSE, entries |-> heap[ref]]

ClientVal(c, heap) ==
    [baseURL |-> c.baseURL, header |-> HeaderVal(c.header, heap),
     logger |-> c.logger]

OptVal(opt, heap) ==
    [kind |-> opt.kind, header |-> HeaderVal(opt.header, heap),
     logger |-> opt.logger]

ArgsVal(baseURL, opts, heap) ==
    [baseURL |-> baseURL,
     opts |-> [i \in 1..Len(opts) |-> OptVal(opts[i], heap)]]

----------------------------------------------------------------------------
\* Call records.

NoStruct == Client("", NilMap, NilLogger, 0)

Call(op, baseURL, header, logger, opts, recv, ret, def, heap) ==
    [op |-> op, baseURL |-> baseURL, header |-> header, logger |-> logger,
     opts |-> opts, recv |-> recv, ret |-> ret, def |-> def,
     struct |-> IF ret = NilClient THEN NoStruct ELSE clients'[ret],
     argv |-> ArgsVal(baseURL, opts, heap),
     val |-> IF ret = NilClient THEN ClientVal(NoStruct, heap)
             ELSE ClientVal(clients'[ret], heap)]

NoCall ==
    [op |-> "none", baseURL |-> "", header |-> NilMap, logger |-> NilLogger,
     opts |-> << >>, recv |-> NilClient, ret |-> NilClient, def |-> NoStruct,
     struct |-> NoStruct, argv |-> ArgsVal("", << >>, << >>),
     val |-> ClientVal(NoStruct, << >>)]

\* What the constructor and the setters were given for one client, and
\* whether SetHeader and SetLogger have been called on it.
Chain(variant, baseURL) ==
    [variant |-> variant, baseURL |-> baseURL,
     hasHeader |-> FALSE, header |-> NilMap,
     hasLogger |-> FALSE, logger |-> NilLogger]

----------------------------------------------------------------------------
\* Initial state: nothing allocated, nothing called.

Init ==
    /\ maps = << >>
    /\ clients = << >>
    /\ nHttp = 0
    /\ chain = << >>
    /\ last = NoCall
    /\ prev = NoCall
    /\ made = {}

----------------------------------------------------------------------------
\* The caller's own maps.

\* header := map[string]string{...}; the callers' program has one such
\* statement for each literal of HeaderLits and runs each once.
MakeMap(lit) ==
    /\ \A x \in made : x.lit # lit
    /\ maps' = Append(maps, lit)
    /\ made' = made \cup {[lit |-> lit, ref |-> Len(maps) + 1]}
    /\ UNCHANGED <<clients, nHttp, chain, last, prev>>

\* m[k] = v, through any reference to the map (the caller's variable or a
\* client's header field).
PutKey(m, k, v) ==
    /\ m \in 1..Len(maps)
    /\ ~(k \in DOMAIN maps[m] /\ maps[m][k] = v)
    /\ maps' = [maps EXCEPT ![m] =
                   [x \in (DOMAIN maps[m]) \cup {k} |->
                       IF x = k THEN v ELSE maps[m][x]]]
    /\ UNCHANGED <<clients, nHttp, chain, last, prev, made>>

----------------------------------------------------------------------------
\* Functional options: New.

OptionValues ==
    {WithHeader(h) : h \in MapRefs} \cup {WithLogger(l) : l \in Loggers}

OptSeqs(n) == UNION {[1..k -> OptionValues] : k \in 0..n}

DoNew(baseURL, opts) ==
    /\ maps' = Append(maps, EmptyMap)
    /\ nHttp' = nHttp + 1
    /\ clients' = Append(clients, NewStruct(baseURL, opts))
    /\ chain' = Append(chain, Chain("functional", baseURL))
    /\ last' = Call("New", baseURL, NilMap, NilLogger, opts, NilClient,
                    NewReturn(baseURL, opts), DefaultClient(baseURL), maps')

New(baseURL, opts) ==
    /\ Len(clients) < MaxClients
    /\ DoNew(baseURL, opts)
    /\ UNCHANGED <<prev, made>>

----------------------------------------------------------------------------
\* Traditional constructor.

TraditionalStruct(baseURL, header, logger) ==
    Client(baseURL, header, logger, nHttp + 1)

TraditionalNew(baseURL, header, logger) ==
    /\ Len(clients) < MaxClients
    /\ nHttp' = nHttp + 1
    /\ clients' = Append(clients, TraditionalStruct(baseURL, header, logger))
    /\ chain' = Append(chain, Chain("traditional", baseURL))
    /\ last' = Call("TraditionalNew", baseURL, header, logger, << >>,
                    NilClient, Len(clients) + 1, NoStruct, maps)
    /\ UNCHANGED <<maps, prev, made>>

----------------------------------------------------------------------------
\* Multiple constructors.

MultipleNewStruct(baseURL) ==
    Client(baseURL, FreshMapRef, NilLogger, nHttp + 1)

MultipleNew(baseURL) ==
    /\ Len(clients) < MaxClients
    /\ maps' = Append(maps, EmptyMap)
    /\ nHttp' = nHttp + 1
    /\ clients' = Append(clients, MultipleNewStruct(baseURL))
    /\ chain' = Append(chain, Chain("multiple", baseURL))
    /\ last' = Call("MultipleNew", baseURL, NilMap, NilLogger, << >>,
                    NilClient, Len(clients) + 1, NoStruct, maps')
    /\ UNCHANGED <<prev, made>>

HeadersStruct(baseURL, header) ==
    Client(baseURL, header, NilLogger, nHttp + 1)

NewWithBaseURLAndHeaders(baseURL, header) ==
    /\ Len(clients) < MaxClients
    /\ nHttp' = nHttp + 1
    /\ clients' = Append(clients, HeadersStruct(baseURL, header))
    /\ chain' = Append(chain, Chain("multiple", baseURL))
    /\ last' = Call("NewWithBaseURLAndHeaders", baseURL, header, NilLogger,
                    << >>, NilClient, Len(clients) + 1, NoStruct, maps)
    /\ UNCHANGED <<maps, prev, made>>

HeadersLoggerStruct(baseURL, header, logger) ==
    Client(baseURL, header, logger, nHttp + 1)

NewWithBaseURLHeadersAndLogger(baseURL, header, logger) ==
    /\ Len(clients) < MaxClients
    /\ nHttp' = nHttp + 1
    /\ clients' = Append(clients, HeadersLoggerStruct(baseURL, header, logger))
    /\ chain' = Append(chain, Chain("multiple", baseURL))
    /\ last' = Call("NewWithBaseURLHeadersAndLogger", baseURL, header, logger,
                    << >>, NilClient, Len(clients) + 1, NoStruct, maps)
    /\ UNCHANGED <<maps, prev, made>>

----------------------------------------------------------------------------
\* Config struct.

Config(BaseURL, Header, Logger) ==
    [BaseURL |-> BaseURL, Header |-> Header, Logger |-> Logger]

ConfigStruct(config) ==
    Client(config.BaseURL, config.Header, config.Logger, nHttp + 1)

NewWithConfig(config) ==
    /\ Len(clients) < MaxClients
    /\ nHttp' = nHttp + 1
    /\ clients' = Append(clients, ConfigStruct(config))
    /\ chain' = Append(chain, Chain("config", config.BaseURL))
    /\ last' = Call("NewWithConfig", config.BaseURL, config.Header,
                    config.Logger, << >>, NilClient, Len(clients) + 1,
                    NoStruct, maps)
    /\ UNCHANGED <<maps, prev, made>>

----------------------------------------------------------------------------
\* Setter pattern.

SetterNewStruct(baseURL) ==
    Client(baseURL, FreshMapRef, NilLogger, nHttp + 1)

SetterNew(baseURL) ==
    /\ Len(clients) < MaxClients
    /\ maps' = Append(maps, EmptyMap)
    /\ nHttp' = nHttp + 1
    /\ clients' = Append(clients, SetterNewStruct(baseURL))
    /\ chain' = Append(chain, Chain("setter", baseURL))
    /\ last' = Call("SetterNew", baseURL, NilMap, NilLogger, << >>,
                    NilClient, Len(clients) + 1, NoStruct, maps')
    /\ UNCHANGED <<prev, made>>

\* Faulty setter: a value receiver, so the assignment is made to a copy.
SetHeaderStructOnCopy(c, header) == c
\* c.header = header
SetHeaderStruct(c, header) == [c EXCEPT !.header = header]
\* return c
SetHeaderReturn(recv) == recv

SetHeader(recv, header) ==
    /\ recv \in 1..Len(clients)
    /\ chain[recv].variant = "setter"
    /\ clients' = [clients EXCEPT ![recv] = SetHeaderStruct(@, header)]
    /\ chain' = [chain EXCEPT ![recv].header = header,
                              ![recv].hasHeader = TRUE]
    /\ last' = Call("SetHeader", clients[recv].baseURL, header, NilLogger,
                    << >>, recv, SetHeaderReturn(recv), NoStruct, maps)
    /\ UNCHANGED <<maps, nHttp, prev, made>>

\* c.logger = logger
SetLoggerStruct(c, logger) == [c EXCEPT !.logger = logger]
\* return c
SetLoggerReturn(recv) == recv

SetLogger(recv, logger) ==
    /\ recv \in 1..Len(clients)
    /\ chain[recv].variant = "setter"
    /\ clients' = [clients EXCEPT ![recv] = SetLoggerStruct(@, logger)]
    /\ chain' = [chain EXCEPT ![recv].logger = logger,
                              ![recv].hasLogger = TRUE]
    /\ last' = Call("SetLogger", clients[recv].baseURL, NilMap, logger,
                    << >>, recv, SetLoggerReturn(recv), NoStruct, maps)
    /\ UNCHANGED <<maps, nHttp, prev, made>>

----------------------------------------------------------------------------
\* The callers of the functional-options package: any interleaving of map
\* literals, map writes and New calls.

Next ==
    \/ \E lit \in HeaderLits : MakeMap(lit)
    \/ \E m \in 1..Len(maps), e \in WriteEntries : PutKey(m, e[1], e[2])
    \/ \E u \in URLs, opts \in OptSeqs(MaxOpts) : New(u, opts)

Spec == Init /\ [][Next]_vars

----------------------------------------------------------------------------
\* The callers of the five packages, each giving every attribute.

NextVariants ==
    \/ \E lit \in HeaderLits : MakeMap(lit)
    \/ \E u \in URLs, h \in MapRefs, l \in Loggers : TraditionalNew(u, h, l)
    \/ \E u \in URLs : MultipleNew(u)
    \/ \E u \in URLs, h \in MapRefs : NewWithBaseURLAndHeaders(u, h)
    \/ \E u \in URLs, h \in MapRefs, l \in Loggers :
           NewWithBaseURLHeadersAndLogger(u, h, l)
    \/ \E u \in URLs, h \in MapRefs, l \in Loggers :
           NewWithConfig(Config(u, h, l))
    \/ \E u \in URLs : SetterNew(u)
    \/ \E c \in 1..Len(clients), h \in MapRefs : SetHeader(c, h)
    \/ \E c \in 1..Len(clients), l \in Loggers : SetLogger(c, l)
    \/ \E u \in URLs, h \in MapRefs, l \in Loggers :
           New(u, <<WithHeader(h), WithLogger(l)>>)

SpecVariants == Init /\ [][NextVariants]_vars

----------------------------------------------------------------------------
\* Two New calls whose arguments are related, with the callers' map literals
\* and map writes before, between and after them.

\* No two options assign the same attribute.
Disjoint(opts) ==
    \A i, j \in 1..Len(opts) : i # j => opts[i].kind # opts[j].kind

IsPerm(a, b) ==
    /\ Len(a) = Len(b)
    /\ \E p \in Permutations(1..Len(a)) : \A i \in 1..Len(a) : a[i] = b[p[i]]

\* a with its i-th element given twice in a row.
Doubled(a, i) ==
    [k \in 1..(Len(a) + 1) |-> IF k <= i THEN a[k] ELSE a[k - 1]]

IsDoubled(a, b) == \E i \in 1..Len(a) : b = Doubled(a, i)

NewFirst(baseURL, opts) ==
    /\ clients = << >>
    /\ DoNew(baseURL, opts)
    /\ UNCHANGED <<prev, made>>

NewSecond(baseURL, opts) ==
    /\ last.op = "New"
    /\ prev = NoCall
    /\ DoNew(baseURL, opts)
    /\ prev' = last
    /\ UNCHANGED made

\* The same arguments, by value, as the first call.
NewAgain(baseURL, opts) ==
    /\ ArgsVal(baseURL, opts, maps) = last.argv
    /\ NewSecond(baseURL, opts)

\* The options of the first call in another order.
NewPermuted(p) ==
    /\ Disjoint(last.opts)
    /\ \E i \in DOMAIN p : p[i] # i
    /\ ArgsVal(last.baseURL, last.opts, maps) = last.argv
    /\ NewSecond(last.baseURL, [i \in 1..Len(last.opts) |-> last.opts[p[i]]])

\* The options of the first call, the i-th given twice in a row.
NewDoubled(i) ==
    /\ ArgsVal(last.baseURL, last.opts, maps) = last.argv
    /\ NewSecond(last.baseURL, Doubled(last.opts, i))

NextPair ==
    \/ \E lit \in HeaderLits : MakeMap(lit)
    \/ \E m \in 1..Len(maps), e \in WriteEntries : PutKey(m, e[1], e[2])
    \/ \E u \in URLs, opts \in OptSeqs(MaxOpts) : NewFirst(u, opts)
    \/ \E u \in URLs, opts \in OptSeqs(MaxOpts) : NewAgain(u, opts)
    \/ \E p \in Permutations(1..Len(last.opts)) : NewPermuted(p)
    \/ \E i \in 1..Len(last.opts) : NewDoubled(i)

SpecPair == Init /\ [][NextPair]_vars

----------------------------------------------------------------------------
\* Properties.

IsNew(call) == call.op = "New"

HasKind(opts, kind) == \E i \in 1..Len(opts) : opts[i].kind = kind

\* The position of the last option of a kind.
IsLastOfKind(opts, i) ==
    \A j \in 1..Len(opts) : j > i => opts[j].kind # opts[i].kind

EmptyHeaderVal == [isNil |-> FALSE, entries |-> EmptyMap]

\* C1: New called with no options returns a target whose identifier is the
\* one given, whose header is the empty, non-nil mapping and whose logger is
\* unset.
C1_Defaults ==
    (IsNew(last) /\ last.opts = << >>) =>
        /\ last.ret # NilClient
        /\ last.struct.baseURL = last.baseURL
        /\ last.struct.header # NilMap
        /\ last.val.header = EmptyHeaderVal
        /\ last.struct.logger = NilLogger

C1_Witness ==
    /\ IsNew(last) /\ last.opts = << >>
    /\ last.baseURL = "https://api.example.com"
    /\ made # {}

\* C2: New applies the options in the order given: of the options that
\* assign the same attribute the last one decides the returned target, and a
\* later header replaces an earlier one whole (no key of the earlier header
\* survives unless the later header has it).
C2_LastWriteWins ==
    IsNew(last) =>
        \A i \in 1..Len(last.opts) :
            IsLastOfKind(last.opts, i) =>
                IF last.opts[i].kind = "WithHeader"
                THEN /\ last.struct.header = last.opts[i].header
                     /\ last.val.header = last.argv.opts[i].header
                ELSE last.struct.logger = last.opts[i].logger

C2_Witness ==
    /\ IsNew(last) /\ Len(last.opts) = 2
    /\ last.opts[1].kind = "WithHeader" /\ last.opts[2].kind = "WithHeader"
    /\ ~last.argv.opts[1].header.isNil
    /\ "A" \in DOMAIN last.argv.opts[1].header.entries
    /\ ~last.val.header.isNil
    /\ DOMAIN last.val.header.entries = {"B"}

\* The default target with each option's assignment applied on its own.
Independently(argv) ==
    [baseURL |-> argv.baseURL,
     header |-> IF \E i \in DOMAIN argv.opts : argv.opts[i].kind = "WithHeader"
                THEN (CHOOSE o \in {argv.opts[i] : i \in DOMAIN argv.opts} :
                          o.kind = "WithHeader").header
                ELSE EmptyHeaderVal,
     logger |-> IF \E i \in DOMAIN argv.opts : argv.opts[i].kind = "WithLogger"
                THEN (CHOOSE o \in {argv.opts[i] : i \in DOMAIN argv.opts} :
                          o.kind = "WithLogger").logger
                ELSE NilLogger]

\* C3: two New calls given the same identifier and the same options, each
\* assigning a different attribute, in different orders return the same
\* target: the default target with each option's assignment applied on its
\* own.
C3_OrderIndependent ==
    (/\ IsNew(prev) /\ IsNew(last)
     /\ prev.argv.baseURL = last.argv.baseURL
     /\ Disjoint(last.opts)
     /\ IsPerm(prev.argv.opts, last.argv.opts)) =>
        /\ prev.val = last.val
        /\ last.val = Independently(last.argv)

C3_Witness ==
    /\ IsNew(prev) /\ IsNew(last)
    /\ Len(last.opts) = 2 /\ Disjoint(last.opts)
    /\ prev.argv.baseURL = last.argv.baseURL
    /\ prev.argv.opts # last.argv.opts
    /\ IsPerm(prev.argv.opts, last.argv.opts)
    /\ ~last.val.header.isNil /\ last.val.header.entries # EmptyMap
    /\ last.val.logger # NilLogger

\* C4: a New call given an option twice in a row returns the same target as
\* the New call given it once, whatever options come before and after it.
C4_Idempotent ==
    (/\ IsNew(prev) /\ IsNew(last)
     /\ prev.argv.baseURL = last.argv.baseURL
     /\ IsDoubled(prev.argv.opts, last.argv.opts)) =>
        prev.val = last.val

C4_Witness ==
    /\ IsNew(prev) /\ IsNew(last)
    /\ prev.argv.baseURL = last.argv.baseURL
    /\ Len(prev.opts) = 2
    /\ last.argv.opts = Doubled(prev.argv.opts, 1)
    /\ prev.opts[1].kind = "WithHeader" /\ prev.opts[1].header # NilMap
    /\ prev.opts[2].kind = "WithHeader"

\* C5 as the specification states it: New called with an empty identifier
\* fails with InvalidArgument and returns no target.
C5_EmptyRejected ==
    (IsNew(last) /\ last.baseURL = "") => last.ret = NilClient

\* C5: New does not validate the identifier: called with an empty identifier
\* it returns a target whose identifier is empty, configured by the options
\* like any other.
C5_EmptyAccepted ==
    (IsNew(last) /\ last.baseURL = "") =>
        /\ last.ret # NilClient
        /\ last.ret \in 1..Len(clients)
        /\ clients[last.ret] = last.struct
        /\ last.struct.baseURL = ""
        /\ last.val.baseURL = ""

C5_Witness ==
    /\ IsNew(last) /\ last.baseURL = ""
    /\ HasKind(last.opts, "WithHeader") /\ last.struct.header # NilMap
    /\ last.struct.logger # NilLogger

\* C7: two New calls given the same identifier and the same options, equal by
\* value, return targets with the same identifier, the same header entries
\* and the same logger, whatever the callers did in between.
C7_Deterministic ==
    (IsNew(prev) /\ IsNew(last) /\ prev.argv = last.argv) =>
        prev.val = last.val

\* The first target's header was written to after the first call returned.
C7_Witness ==
    /\ IsNew(prev) /\ IsNew(last) /\ prev.argv = last.argv
    /\ ClientVal(clients[prev.ret], maps) # prev.val

\* C8: WithHeader assigns the header and nothing else, WithLogger assigns the
\* logger and nothing else; so the target New returns keeps the identifier it
\* was given and its own base client, and keeps the default of an attribute
\* no option assigns.
C8_Frame ==
    /\ \A i \in 1..Len(clients) : \A opt \in OptionValues :
           LET c == clients[i]
               d == ApplyOption(opt, c)
           IN  /\ d.baseURL = c.baseURL
               /\ d.baseClient = c.baseClient
               /\ opt.kind = "WithHeader" =>
                      d.header = opt.header /\ d.logger = c.logger
               /\ opt.kind = "WithLogger" =>
                      d.logger = opt.logger /\ d.header = c.header
    /\ IsNew(last) =>
           /\ last.struct.baseURL = last.baseURL
           /\ last.struct.baseClient = last.def.baseClient
           /\ ~HasKind(last.opts, "WithHeader") =>
                  last.struct.header = last.def.header
           /\ ~HasKind(last.opts, "WithLogger") =>
                  last.struct.logger = last.def.logger

C8_Witness ==
    /\ IsNew(last) /\ Len(last.opts) = 2
    /\ last.opts[1].kind = "WithLogger" /\ last.opts[1].logger # NilLogger
    /\ last.opts[2].kind = "WithHeader" /\ last.opts[2].header # NilMap
    /\ last.baseURL # ""

\* C9 (the code breaks it: WithHeader keeps the caller's map): no target
\* shares mutable state with the caller's arguments or with
\* another target: a write to a map the caller made does not change what a
\* target shows, and a write to one target's header does not change what
\* another target shows.
C9_NoSharing ==
    [][\A m \in 1..Len(maps) : maps'[m] # maps[m] =>
          \A i \in 1..Len(clients) :
              \/ clients[i].header = m /\ m \notin {x.ref : x \in made}
              \/ ClientVal(clients'[i], maps') = ClientVal(clients[i], maps)]_vars

\* C10: given a base URL, a header and a logger, each of the five variants
\* yields a client holding exactly these: the traditional constructor, the
\* three-argument constructor, the config struct constructor, the functional
\* options New with WithHeader and WithLogger, and the setters called on the
\* basic constructor's client in either order, each setter returning its
\* receiver.
C10_Equivalent ==
    /\ last.op \in {"TraditionalNew", "NewWithBaseURLHeadersAndLogger",
                    "NewWithConfig"} =>
           /\ last.ret = Len(clients)
           /\ last.struct.baseURL = last.baseURL
           /\ last.struct.header = last.header
           /\ last.struct.logger = last.logger
    /\ (/\ IsNew(last) /\ Len(last.opts) = 2
        /\ last.opts[1].kind = "WithHeader"
        /\ last.opts[2].kind = "WithLogger") =>
           /\ last.ret = Len(clients)
           /\ last.struct.baseURL = last.baseURL
           /\ last.struct.header = last.opts[1].header
           /\ last.struct.logger = last.opts[2].logger
    /\ last.op \in {"SetHeader", "SetLogger"} => last.ret = last.recv
    /\ \A i \in 1..Len(clients) :
           (chain[i].variant = "setter" /\ chain[i].hasHeader
                /\ chain[i].hasLogger) =>
               /\ clients[i].baseURL = chain[i].baseURL
               /\ clients[i].header = chain[i].header
               /\ clients[i].logger = chain[i].logger

C10_Witness ==
    /\ last.op = "SetHeader"
    /\ chain[last.recv].hasHeader /\ chain[last.recv].hasLogger
    /\ chain[last.recv].header # NilMap
    /\ chain[last.recv].logger # NilLogger
    /\ chain[last.recv].baseURL # ""

====
